---- MODULE Spec2Model ----
(***************************************************************************)
(* Format negotiation of the jaenokhwa camera library.                     *)
(*                                                                         *)
(* RequestedFormat::fulfill (jaenokhwa-core/src/types.rs) maps a           *)
(* RequestedFormatType and the list of formats a device reports to at most *)
(* one CameraFormat.  The list, the request and the returned Option are    *)
(* the state; the one operation is the call of fulfill.                    *)
(*                                                                         *)
(* Option<T> is a sequence of length at most one: None is <<>> and Some(x) *)
(* is <<x>>.  Vec<T> and slices are sequences.                             *)
(***************************************************************************)
EXTENDS Integers, Sequences, FiniteSets, TLC

\* RequestedFormat::fulfill: the list, the request, the returned Option
VARIABLES all_formats, requested_format, result, pc

\* Ord::cmp: the two operands, the type compared, the returned Ordering
VARIABLES cmp_self, cmp_other, cmp_type, cmp_ordering

\* AVCaptureDeviceWrapper: the formats the native device reports, whether
\* another application uses the device, the `locked` field of each wrapper,
\* the native configuration locks taken through each wrapper and not given
\* back, the active format and frame durations of the native device, and the
\* last call made: the wrapper, the method, its argument and what it returned
VARIABLES native_formats, in_use_by_another_application, locked, native_lock,
          active_format, active_min_frame_duration, active_max_frame_duration,
          call_handle, call_method, call_descriptor, call_result

\* the threaded camera and the capture delegate: where the owner and the
\* worker are, the stop signal, the frame the worker has read, the sample
\* buffers the native session has output, the strong count of the shared
\* Sender, whether the Receiver exists, the channel of the delegate, the
\* frames sent into it, the queue of poll_frame, the frames handed to the
\* callback and the frames poll_frame has returned
VARIABLES stream_pc, worker_pc, stop_signal, worker_frame, captured,
          sender_strong, receiver_alive, delegate_channel, handed,
          poll_queue, callbacks, polled

\* verify_setter: the description, the setter and the answer
VARIABLES description, setter, verified

\* set_control: the platform the binding is built for, the controls that
\* get_controls reports, the setter messages the native device has received,
\* and the last call: the control id, the value and what it returned
VARIABLES target_os, controls, native_messages, control_id, control_value,
          control_result

\* query: the operating system the crate is built for, the features it is
\* built with, what the native enumeration of each backend answers, and the
\* last call: the backend asked for, the query functions of the backends
\* that the call ran, and what query returned
VARIABLES consts_OS, features, native_query, api, dispatched, query_result

\* CameraControl of utils.rs: the control, the list valid_values returned,
\* and the last call of set_value: its argument and what it returned
VARIABLES camera_control, valid_values_list, set_value_arg, set_value_result

\* convert_to_rgb: the frame, what Context::get answers, the length of plane
\* 0 of the input Video, and what the call did
VARIABLES frame_buffer, scaler, input_plane_len, convert_result

\* dist_no_sqrt of Closest on the whole range of u32: the target resolution,
\* the resolutions of two candidates, whether the build checks overflow, the
\* distance computed for each candidate and the candidate ranked first
VARIABLES target_resolution, candidate_resolutions, overflow_checks, distances, ranked_first

fulfillVars == <<all_formats, requested_format, result, pc>>

ordVars == <<cmp_self, cmp_other, cmp_type, cmp_ordering>>

deviceVars ==
  <<native_formats, in_use_by_another_application, locked, native_lock,
    active_format, active_min_frame_duration, active_max_frame_duration,
    call_handle, call_method, call_descriptor, call_result>>

streamVars ==
  <<stream_pc, worker_pc, stop_signal, worker_frame, captured,
    sender_strong, receiver_alive, delegate_channel, handed,
    poll_queue, callbacks, polled>>

setterVars == <<description, setter, verified>>

controlVars ==
  <<target_os, controls, native_messages, control_id, control_value,
    control_result>>

queryVars ==
  <<consts_OS, features, native_query, api, dispatched, query_result>>

utilsVars == <<camera_control, valid_values_list, set_value_arg, set_value_result>>

convertVars == <<frame_buffer, scaler, input_plane_len, convert_result>>

distanceVars == <<target_resolution, candidate_resolutions, overflow_checks, distances, ranked_first>>

vars ==
  <<fulfillVars, ordVars, deviceVars, streamVars, setterVars, controlVars,
    queryVars,
    utilsVars,
    convertVars,
    distanceVars>>

\* what a call of one part leaves alone: the variables of the other parts
exceptFulfill == <<ordVars, deviceVars, streamVars, setterVars, controlVars,
  queryVars,
  utilsVars,
  convertVars,
  distanceVars>>

exceptOrd == <<fulfillVars, deviceVars, streamVars, setterVars, controlVars,
  queryVars,
  utilsVars,
  convertVars,
  distanceVars>>

exceptDevice == <<fulfillVars, ordVars, streamVars, setterVars, controlVars,
  queryVars,
  utilsVars,
  convertVars,
  distanceVars>>

exceptStream == <<fulfillVars, ordVars, setterVars, controlVars,
  queryVars,
  utilsVars,
  convertVars,
  distanceVars>>

exceptSetter == <<fulfillVars, ordVars, deviceVars, streamVars, controlVars,
  queryVars,
  utilsVars,
  convertVars,
  distanceVars>>

exceptControl == <<fulfillVars, ordVars, deviceVars, streamVars, setterVars,
  queryVars,
  utilsVars,
  convertVars,
  distanceVars>>

exceptQuery ==
  <<fulfillVars, ordVars, deviceVars, streamVars, setterVars, controlVars,
  utilsVars,
  convertVars,
  distanceVars>>

exceptUtils ==
  <<fulfillVars, ordVars, deviceVars, streamVars,
    setterVars, controlVars, queryVars,
  convertVars,
  distanceVars>>

exceptConvert ==
  <<fulfillVars, ordVars, deviceVars, streamVars,
    setterVars, controlVars, queryVars, utilsVars,
  distanceVars>>

exceptDistance ==
  <<fulfillVars, ordVars, deviceVars, streamVars,
    setterVars, controlVars, queryVars, utilsVars, convertVars>>

(***************************************************************************)
(* Bounds and input values                                                 *)
(***************************************************************************)

\* longest list of available formats handed to fulfill
MaxLen == 2

\* widths and heights a device reports (u32)
Widths == {1000, 1001}

Heights == {999, 1000}

\* frame rates a device reports (u32)
FrameRates == {15, 30, 45}

\* four-character codes of the encodings
FourCCs == {"mjpg", "yuyv"}

(***************************************************************************)
(* Data model                                                              *)
(***************************************************************************)

None == <<>>

Some(x) == <<x>>

Resolution == [width_x : Widths, height_y : Heights]

CameraFormat == [resolution : Resolution, format : FourCCs, frame_rate : FrameRates]

CameraFormatNew(resolution, format, frame_rate) ==
  [resolution |-> resolution, format |-> format, frame_rate |-> frame_rate]

RequestedFormatType ==
       {<<"AbsoluteHighestResolution">>, <<"AbsoluteHighestFrameRate">>}
  \cup {<<"HighestResolution", r>> : r \in Resolution}
  \cup {<<"HighestFrameRate", f>> : f \in FrameRates}
  \cup {<<"Closest", c>> : c \in CameraFormat}
  \cup {<<"None">>}

\* u32::cmp
U32Cmp(a, b) == IF a < b THEN "Less" ELSE IF a = b THEN "Equal" ELSE "Greater"

\* ResolutionCmp with the fields compared in the other order
ResolutionCmpHeightFirst(a, b) ==
  CASE U32Cmp(a.height_y, b.height_y) = "Less" -> "Less"
    [] U32Cmp(a.height_y, b.height_y) = "Equal" -> U32Cmp(a.width_x, b.width_x)
    [] U32Cmp(a.height_y, b.height_y) = "Greater" -> "Greater"

\* ResolutionCmp flipped, from highest to lowest
ResolutionCmpDescending(a, b) ==
  CASE U32Cmp(b.width_x, a.width_x) = "Less" -> "Less"
    [] U32Cmp(b.width_x, a.width_x) = "Equal" -> U32Cmp(b.height_y, a.height_y)
    [] U32Cmp(b.width_x, a.width_x) = "Greater" -> "Greater"

\* impl Ord for Resolution: width first, then height
ResolutionCmp(a, b) ==
  CASE U32Cmp(a.width_x, b.width_x) = "Less" -> "Less"
    [] U32Cmp(a.width_x, b.width_x) = "Equal" -> U32Cmp(a.height_y, b.height_y)
    [] U32Cmp(a.width_x, b.width_x) = "Greater" -> "Greater"

\* the bytes of a four-character code
FourCCBytes(f) ==
  CASE f = "mjpg" -> <<109, 106, 112, 103>>
    [] f = "yuyv" -> <<121, 117, 121, 118>>

\* derive(Ord) of FourCC([u8; 4]): the byte arrays, lexicographically
FourCCCmp(a, b) ==
  LET x == FourCCBytes(a)
      y == FourCCBytes(b)
      differ == {i \in 1..4 : x[i] # y[i]}
      i == CHOOSE d \in differ : \A e \in differ : d <= e
  IN  IF differ = {} THEN "Equal" ELSE U32Cmp(x[i], y[i])

\* derive(Ord) of CameraFormat: the fields in declaration order
CameraFormatCmp(a, b) ==
  IF ResolutionCmp(a.resolution, b.resolution) # "Equal"
    THEN ResolutionCmp(a.resolution, b.resolution)
    ELSE IF FourCCCmp(a.format, b.format) # "Equal"
      THEN FourCCCmp(a.format, b.format)
      ELSE U32Cmp(a.frame_rate, b.frame_rate)

(***************************************************************************)
(* Slice and iterator helpers of the standard library                      *)
(***************************************************************************)

\* the elements of a slice, as a set
Elems(s) == {s[i] : i \in 1..Len(s)}

\* the comparators handed to the sorts, each as the set of the pairs <<a, b>>
\* of elements of s for which it answers Ordering::Less
ByResolution(s) ==
  {p \in Elems(s) \X Elems(s) :
     ResolutionCmp(p[1].resolution, p[2].resolution) = "Less"}

ByFrameRate(s) ==
  {p \in Elems(s) \X Elems(s) : U32Cmp(p[1].frame_rate, p[2].frame_rate) = "Less"}

ByFirst(s) == {p \in Elems(s) \X Elems(s) : p[1][1] < p[2][1]}

\* slice::sort_by and sort_by_key under the comparator less.  The sort is
\* stable: elements that compare equal keep their order.
SortBy(s, less) ==
  LET n == Len(s)
      rank(i) == Cardinality({j \in 1..n :
                    \/ <<s[j], s[i]>> \in less
                    \/ (<<s[i], s[j]>> \notin less /\ j < i)})
  IN  [k \in 1..n |-> s[CHOOSE i \in 1..n : rank(i) = k - 1]]

\* Vec::dedup_by(|a, b| a.0.eq(&b.0)): an element is removed when its first
\* component equals that of the element retained before it.
RECURSIVE DedupFrom(_, _, _)
DedupFrom(s, i, kept) ==
  IF i > Len(s) THEN kept
  ELSE IF Len(kept) > 0 /\ s[i][1] = kept[Len(kept)][1]
       THEN DedupFrom(s, i + 1, kept)
       ELSE DedupFrom(s, i + 1, Append(kept, s[i]))

DedupByFirst(s) == DedupFrom(s, 1, <<>>)

\* Iterator::last, slice::last
Last(s) == IF Len(s) = 0 THEN None ELSE Some(s[Len(s)])

\* slice::first
First(s) == IF Len(s) = 0 THEN None ELSE Some(s[1])

(***************************************************************************)
(* RequestedFormat::fulfill, one operator per match arm.  filter(..) is    *)
(* SelectSeq and map(..) a function over the positions of the sequence.    *)
(***************************************************************************)

\* FulfillAbsoluteHighestResolution without the sort by frame rate: the last
\* entry of the greatest resolution in list order
AbsoluteHighestResolutionNoRateSort(all) ==
  Last(SortBy(all, ByResolution(all)))

FulfillAbsoluteHighestResolution(all) ==
  LET formats == SortBy(all, ByResolution(all))
  IN  IF Last(formats) = None THEN None
      ELSE LET resolution == Last(formats)[1]
               filtered == SelectSeq(formats,
                             LAMBDA fmt : fmt.resolution = resolution.resolution)
               format_resolutions == SortBy(filtered, ByFrameRate(filtered))
           IN  Last(format_resolutions)

FulfillAbsoluteHighestFrameRate(all) ==
  LET formats == SortBy(all, ByFrameRate(all))
  IN  IF Last(formats) = None THEN None
      ELSE LET frame_rate == Last(formats)[1]
               filtered == SelectSeq(formats,
                             LAMBDA fmt : fmt.frame_rate = frame_rate.frame_rate)
               format_framerates == SortBy(filtered, ByResolution(filtered))
           IN  Last(format_framerates)

\* FulfillHighestResolution that also accepts a greater resolution
HighestResolutionOrGreater(res, all) ==
  LET filtered == SelectSeq(all, LAMBDA x : ResolutionCmp(x.resolution, res) # "Less")
      formats == SortBy(filtered, ByFrameRate(filtered))
  IN  IF Last(formats) = None THEN None
      ELSE LET highest_fps == Last(formats)[1].frame_rate
           IN  Last(SelectSeq(formats, LAMBDA x : x.frame_rate = highest_fps))

FulfillHighestResolution(res, all) ==
  LET filtered == SelectSeq(all, LAMBDA x : x.resolution = res)
      formats == SortBy(filtered, ByFrameRate(filtered))
  IN  IF Last(formats) = None THEN None
      ELSE LET highest_fps == Last(formats)[1].frame_rate
           IN  Last(SelectSeq(formats, LAMBDA x : x.frame_rate = highest_fps))

\* FulfillHighestFrameRate without the sort by resolution
HighestFrameRateNoSort(fps, all) ==
  LET formats == SelectSeq(all, LAMBDA x : x.frame_rate = fps)
  IN  IF Last(formats) = None THEN None
      ELSE LET highest_res == Last(formats)[1].resolution
           IN  Last(SelectSeq(formats, LAMBDA x : x.resolution = highest_res))

FulfillHighestFrameRate(fps, all) ==
  LET filtered == SelectSeq(all, LAMBDA x : x.frame_rate = fps)
      formats == SortBy(filtered, ByResolution(filtered))
  IN  IF Last(formats) = None THEN None
      ELSE LET highest_res == Last(formats)[1].resolution
           IN  Last(SelectSeq(formats, LAMBDA x : x.resolution = highest_res))

\* `as i32` of a u32
AsI32(x) == IF x <= 2147483647 THEN x ELSE (x - 2147483647) - 2147483647 - 2

\* i32::abs
Abs(x) == IF x < 0 THEN -x ELSE x

\* dist_no_sqrt of one candidate.  The widths and heights of Widths and
\* Heights differ by far less than 2^15, where the i32 squares and their sum
\* are exact.
DistNoSqrt(res, c) ==
  LET x_diff == AsI32(res.width_x) - AsI32(c.resolution.width_x)
      y_diff == AsI32(res.height_y) - AsI32(c.resolution.height_y)
  IN  (Abs(x_diff) * Abs(x_diff)) + (Abs(y_diff) * Abs(y_diff))

\* the candidates of Closest: the entries with the encoding of the target
SameFourccFormats(c, all) == SelectSeq(all, LAMBDA x : x.format = c.format)

\* the (dist_no_sqrt, res) pairs of the candidates, in list order
ResolutionMap(c, all) ==
  [i \in 1..Len(SameFourccFormats(c, all)) |->
     <<DistNoSqrt(SameFourccFormats(c, all)[i].resolution, c),
       SameFourccFormats(c, all)[i].resolution>>]

\* ClosestResolution without the sort by distance
ClosestResolutionNoSort(c, all) ==
  LET resolution_map == DedupByFirst(ResolutionMap(c, all))
  IN  IF First(resolution_map) = None THEN None
      ELSE Some(First(resolution_map)[1][2])

\* first stage of Closest: resolution_map.first()?.1
ClosestResolution(c, all) ==
  LET resolution_map ==
        DedupByFirst(SortBy(ResolutionMap(c, all), ByFirst(ResolutionMap(c, all))))
  IN  IF First(resolution_map) = None THEN None
      ELSE Some(First(resolution_map)[1][2])

\* ClosestFrameRates over every resolution of the target's encoding
ClosestFrameRatesAnyResolution(c, all) ==
  LET kept == SelectSeq(all, LAMBDA camera_format : camera_format.format = c.format)
  IN  [i \in 1..Len(kept) |-> kept[i].frame_rate]

\* the frame rates the second stage of Closest chooses from
ClosestFrameRates(c, all) ==
  LET kept == SelectSeq(all, LAMBDA camera_format :
                          /\ camera_format.format = c.format
                          /\ camera_format.resolution = c.resolution)
  IN  [i \in 1..Len(kept) |-> kept[i].frame_rate]

\* the (difference, frame rate) pairs of the frame rates, in list order
FramerateMap(c, all) ==
  [i \in 1..Len(ClosestFrameRates(c, all)) |->
     <<Abs(AsI32(ClosestFrameRates(c, all)[i]) - AsI32(c.frame_rate)),
       ClosestFrameRates(c, all)[i]>>]

\* ClosestFrameRate without the sort by difference
ClosestFrameRateNoSort(c, all) ==
  IF First(FramerateMap(c, all)) = None THEN None
  ELSE Some(First(FramerateMap(c, all))[1][2])

\* second stage of Closest: framerate_map.first()?.1
ClosestFrameRate(c, all) ==
  LET framerate_map == SortBy(FramerateMap(c, all), ByFirst(FramerateMap(c, all)))
  IN  IF First(framerate_map) = None THEN None
      ELSE Some(First(framerate_map)[1][2])

\* FulfillClosest that matches across encodings: every entry is taken as if
\* it had the encoding of the target
ClosestAnyFourcc(c, all) ==
  LET relabelled == [i \in 1..Len(all) |-> [all[i] EXCEPT !.format = c.format]]
  IN  IF ClosestResolution(c, relabelled) = None THEN None
      ELSE IF ClosestFrameRate(c, relabelled) = None THEN None
      ELSE Some(CameraFormatNew(ClosestResolution(c, relabelled)[1], c.format,
                                ClosestFrameRate(c, relabelled)[1]))

FulfillClosest(c, all) ==
  IF ClosestResolution(c, all) = None THEN None
  ELSE IF ClosestFrameRate(c, all) = None THEN None
  ELSE Some(CameraFormatNew(ClosestResolution(c, all)[1], c.format,
                            ClosestFrameRate(c, all)[1]))

\* FulfillNone that takes the last entry
NoneTakesLast(all) == Last(all)

\* FulfillNone that falls back to CameraFormat::default() on an empty list
NoneOrDefault(all) ==
  IF Len(all) = 0
  THEN Some(CameraFormatNew([width_x |-> 640, height_y |-> 480], "mjpg", 30))
  ELSE Some(all[1])

FulfillNone(all) == First(all)

\* RequestedFormat::fulfill
fulfill(requested, all) ==
  CASE requested[1] = "AbsoluteHighestResolution" -> FulfillAbsoluteHighestResolution(all)
    [] requested[1] = "AbsoluteHighestFrameRate" -> FulfillAbsoluteHighestFrameRate(all)
    [] requested[1] = "HighestResolution" -> FulfillHighestResolution(requested[2], all)
    [] requested[1] = "HighestFrameRate" -> FulfillHighestFrameRate(requested[2], all)
    [] requested[1] = "Closest" -> FulfillClosest(requested[2], all)
    [] requested[1] = "None" -> FulfillNone(all)

(***************************************************************************)
(* The state machine: a caller holds a request and a list of formats and   *)
(* calls fulfill once.                                                     *)
(***************************************************************************)

\* no comparison is in progress
OrdUnused ==
  /\ cmp_self = None
  /\ cmp_other = None
  /\ cmp_type = "unused"
  /\ cmp_ordering = None

\* no device is open
DeviceUnused ==
  /\ native_formats = <<>>
  /\ in_use_by_another_application = FALSE
  /\ locked = <<>>
  /\ native_lock = <<>>
  /\ active_format = None
  /\ active_min_frame_duration = None
  /\ active_max_frame_duration = None
  /\ call_handle = None
  /\ call_method = "unused"
  /\ call_descriptor = None
  /\ call_result = None

\* no threaded camera exists
StreamUnused ==
  /\ stream_pc = "unused"
  /\ worker_pc = "unused"
  /\ stop_signal = FALSE
  /\ worker_frame = None
  /\ captured = 0
  /\ sender_strong = 0
  /\ receiver_alive = FALSE
  /\ delegate_channel = <<>>
  /\ handed = <<>>
  /\ poll_queue = <<>>
  /\ callbacks = <<>>
  /\ polled = <<>>

\* no setter is being verified
SetterUnused ==
  /\ description = None
  /\ setter = None
  /\ verified = None

\* no control is being set
ControlUnused ==
  /\ target_os = "unused"
  /\ controls = <<>>
  /\ native_messages = <<>>
  /\ control_id = None
  /\ control_value = None
  /\ control_result = None

\* query is not in use
QueryUnused ==
  /\ consts_OS = "unused"
  /\ features = {}
  /\ native_query = None
  /\ api = None
  /\ dispatched = <<>>
  /\ query_result = None

\* CameraControl of utils.rs is not in use
UtilsUnused ==
  /\ camera_control = None
  /\ valid_values_list = None
  /\ set_value_arg = None
  /\ set_value_result = None

\* convert_to_rgb is not in use
ConvertUnused ==
  /\ frame_buffer = None
  /\ scaler = "unused"
  /\ input_plane_len = 0
  /\ convert_result = None

\* no distance is being computed
DistanceUnused ==
  /\ target_resolution = None
  /\ candidate_resolutions = <<>>
  /\ overflow_checks = FALSE
  /\ distances = None
  /\ ranked_first = None

\* fulfill is not in use
FulfillUnused ==
  /\ all_formats = <<>>
  /\ requested_format = <<"None">>
  /\ result = None
  /\ pc = "unused"

\* the lists of at most MaxLen formats, in any order, duplicates allowed
FormatLists == UNION {[1..n -> CameraFormat] : n \in 0..MaxLen}

\* RequestedFormat::new(requested) and the list the device reported
Init ==
  /\ all_formats \in FormatLists
  /\ requested_format \in RequestedFormatType
  /\ result = None
  /\ pc = "new"
  /\ OrdUnused
  /\ DeviceUnused
  /\ StreamUnused
  /\ SetterUnused
  /\ ControlUnused
  /\ QueryUnused
  /\ UtilsUnused
  /\ ConvertUnused
  /\ DistanceUnused

\* self.fulfill(all_formats): the list is borrowed, the request is Copy
Fulfill ==
  /\ pc = "new"
  /\ result' = fulfill(requested_format, all_formats)
  /\ pc' = "fulfilled"
  /\ UNCHANGED <<all_formats, requested_format>>
  /\ UNCHANGED exceptFulfill

Next == Fulfill

Spec == Init /\ [][Next]_vars

TypeOK ==
  /\ all_formats \in FormatLists
  /\ requested_format \in RequestedFormatType
  /\ pc \in {"new", "fulfilled"}

(***************************************************************************)
(* The orderings of Resolution and CameraFormat                            *)
(***************************************************************************)

\* two formats about to be compared
InitOrd ==
  /\ cmp_self \in CameraFormat
  /\ cmp_other \in CameraFormat
  /\ cmp_type = "new"
  /\ cmp_ordering = None
  /\ FulfillUnused
  /\ DeviceUnused
  /\ StreamUnused
  /\ SetterUnused
  /\ ControlUnused
  /\ QueryUnused
  /\ UtilsUnused
  /\ ConvertUnused
  /\ DistanceUnused

\* self.resolution().cmp(&other.resolution())
CmpResolution ==
  /\ cmp_type = "new"
  /\ cmp_type' = "Resolution"
  /\ cmp_ordering' = Some(ResolutionCmp(cmp_self.resolution, cmp_other.resolution))
  /\ UNCHANGED <<cmp_self, cmp_other>>
  /\ UNCHANGED exceptOrd

\* self.cmp(&other)
CmpCameraFormat ==
  /\ cmp_type = "new"
  /\ cmp_type' = "CameraFormat"
  /\ cmp_ordering' = Some(CameraFormatCmp(cmp_self, cmp_other))
  /\ UNCHANGED <<cmp_self, cmp_other>>
  /\ UNCHANGED exceptOrd

NextOrd == CmpResolution \/ CmpCameraFormat

SpecOrd == InitOrd /\ [][NextOrd]_vars

(***************************************************************************)
(* The device wrapper of the AVFoundation bindings                         *)
(* (jaenokhwa-bindings-macos/src/lib.rs)                                   *)
(*                                                                         *)
(* The wrappers opened on one device id share the native device.  A frame  *)
(* rate of the native device is a float: it is counted in hundredths of a  *)
(* frame per second.  A frame duration is named by the native format and   *)
(* the frame rate range it was read from.                                  *)
(***************************************************************************)

\* most native formats a device reports
MaxNative == 2

\* most native configuration locks taken through one wrapper
MaxNativeLocks == 2

\* the wrappers this application opens on the device id
Handles == {1, 2}

\* the dimensions of the native formats and of the requested formats
Dimensions ==
  {[width_x |-> 1000, height_y |-> 1000], [width_x |-> 1001, height_y |-> 1000]}

\* videoSupportedFrameRateRanges of a native format: the maxFrameRate of each
\* range, in hundredths
FrameRateRanges == {<<1500>>, <<3000>>}

\* a native format: its dimensions, its media subtype and its ranges
AVCaptureDeviceFormat ==
  [dimensions : Dimensions, media_subtype : FourCCs, ranges : FrameRateRanges]

\* the format lists a native device may report
NativeFormatLists == UNION {[1..n -> AVCaptureDeviceFormat] : n \in 0..MaxNative}

\* the formats handed to set_all
Descriptors == [resolution : Dimensions, format : FourCCs, frame_rate : {15, 30}]

\* the outcomes of the native lockForConfiguration, as the binding sees them
LockForConfiguration == {"Ok(true)", "Ok(false)", "Err"}

\* the values the methods return
Ok == <<"Ok">>

AlreadyInUse == <<"InitializeError", "AVFoundation", "Already in use">>

LockRejected == <<"SetPropertyError", "lockForConfiguration", "Lock Rejected">>

CannotLock ==
  <<"SetPropertyError", "lockForConfiguration", "Cannot lock for configuration">>

NotFound == <<"SetPropertyError", "CameraFormat", "Not Found/Rejected/Unsupported">>

\* what lock returns through wrapper h when the native call, if it is
\* reached, answers lfc
LockResult(h, lfc) ==
  IF locked[h] THEN Ok
  ELSE IF in_use_by_another_application THEN AlreadyInUse
  ELSE CASE lfc = "Ok(true)" -> Ok
         [] lfc = "Ok(false)" -> LockRejected
         [] lfc = "Err" -> CannotLock

\* the native locks held after lock: one more when the native call is reached
\* and accepts.  lock takes &self and leaves the field `locked` as it is.
NativeLockAfterLock(h, lfc) ==
  IF ~locked[h] /\ ~in_use_by_another_application /\ lfc = "Ok(true)"
    THEN [native_lock EXCEPT ![h] = @ + 1]
    ELSE native_lock

\* the native locks held after unlock on top of held: the native
\* unlockForConfiguration is sent only when the field `locked` is set
NativeLockAfterUnlock(h, held) ==
  IF locked[h] THEN [held EXCEPT ![h] = @ - 1] ELSE held

\* dimensions.height == descriptor.resolution().height() as i32 && the same
\* for the width
DimensionsMatch(format, descriptor) ==
  /\ format.dimensions.height_y = AsI32(descriptor.resolution.height_y)
  /\ format.dimensions.width_x = AsI32(descriptor.resolution.width_x)

\* (f64::from(descriptor.frame_rate()) - max_fps).abs() < 0.01
FrameRateMatches(descriptor, max_fps) ==
  Abs(100 * descriptor.frame_rate - max_fps) < 1

\* the ranges of a native format that match the frame rate asked for
MatchingRanges(format, descriptor) ==
  {j \in DOMAIN format.ranges : FrameRateMatches(descriptor, format.ranges[j])}

\* selected_format after the loop over the native formats: every format of
\* the dimensions asked for overwrites it, so the last one stays
SelectedFormat(list, descriptor) ==
  LET matching == {i \in DOMAIN list : DimensionsMatch(list[i], descriptor)}
  IN  IF matching = {} THEN None
      ELSE Some(CHOOSE i \in matching : \A k \in matching : k <= i)

\* min_frame_duration and max_frame_duration after the loop: both are read
\* from the first matching range (break) of a format of the dimensions asked
\* for, and a later such format overwrites them
FrameDuration(list, descriptor) ==
  LET matching == {i \in DOMAIN list :
                     /\ DimensionsMatch(list[i], descriptor)
                     /\ MatchingRanges(list[i], descriptor) # {}}
      i == CHOOSE m \in matching : \A k \in matching : k <= m
      ranges == MatchingRanges(list[i], descriptor)
      j == CHOOSE r \in ranges : \A k \in ranges : r <= k
  IN  IF matching = {} THEN None ELSE Some([format |-> i, range |-> j])

\* from_unique_id, once for each wrapper: locked: false
InitDevice ==
  /\ native_formats \in NativeFormatLists
  /\ in_use_by_another_application \in BOOLEAN
  /\ locked = [h \in Handles |-> FALSE]
  /\ native_lock = [h \in Handles |-> 0]
  /\ active_format = None
  /\ active_min_frame_duration = None
  /\ active_max_frame_duration = None
  /\ call_handle = None
  /\ call_method = "from_unique_id"
  /\ call_descriptor = None
  /\ call_result = None
  /\ FulfillUnused
  /\ OrdUnused
  /\ StreamUnused
  /\ SetterUnused
  /\ ControlUnused
  /\ QueryUnused
  /\ UtilsUnused
  /\ ConvertUnused
  /\ DistanceUnused

\* lock(&self)
Lock(h) ==
  /\ native_lock[h] < MaxNativeLocks
  /\ \E lfc \in LockForConfiguration :
       /\ call_result' = LockResult(h, lfc)
       /\ native_lock' = NativeLockAfterLock(h, lfc)
  /\ call_handle' = Some(h)
  /\ call_method' = "lock"
  /\ call_descriptor' = None
  /\ UNCHANGED <<native_formats, in_use_by_another_application, locked, active_format,
                 active_min_frame_duration, active_max_frame_duration>>
  /\ UNCHANGED exceptDevice

\* the body of unlock(&mut self)
unlock(h) ==
  /\ native_lock' = NativeLockAfterUnlock(h, native_lock)
  /\ locked' = [locked EXCEPT ![h] = FALSE]
  /\ call_handle' = Some(h)
  /\ call_method' = "unlock"
  /\ call_descriptor' = None
  /\ call_result' = None
  /\ UNCHANGED <<native_formats, in_use_by_another_application, active_format,
                 active_min_frame_duration, active_max_frame_duration>>

\* a call of unlock on a wrapper
Unlock(h) ==
  /\ unlock(h)
  /\ UNCHANGED exceptDevice

\* the body of set_all(&mut self, descriptor)
set_all(h, descriptor) ==
  /\ native_lock[h] < MaxNativeLocks
  /\ call_handle' = Some(h)
  /\ call_method' = "set_all"
  /\ call_descriptor' = Some(descriptor)
  /\ \E lfc \in LockForConfiguration :
       LET selected_format == SelectedFormat(native_formats, descriptor)
           frame_duration == FrameDuration(native_formats, descriptor)
       IN  IF LockResult(h, lfc) # Ok
             THEN \* self.lock()?
                  /\ call_result' = LockResult(h, lfc)
                  /\ native_lock' = NativeLockAfterLock(h, lfc)
                  /\ UNCHANGED <<locked, active_format, active_min_frame_duration,
                                 active_max_frame_duration>>
             ELSE IF frame_duration = None \/ selected_format = None
               THEN \* return Err(..): unlock is not called
                    /\ call_result' = NotFound
                    /\ native_lock' = NativeLockAfterLock(h, lfc)
                    /\ UNCHANGED <<locked, active_format, active_min_frame_duration,
                                   active_max_frame_duration>>
               ELSE /\ active_format' = selected_format
                    /\ active_min_frame_duration' = frame_duration
                    /\ active_max_frame_duration' = frame_duration
                    /\ native_lock' =
                         NativeLockAfterUnlock(h, NativeLockAfterLock(h, lfc))
                    /\ locked' = [locked EXCEPT ![h] = FALSE]
                    /\ call_result' = Ok
  /\ UNCHANGED <<native_formats, in_use_by_another_application>>

\* a call of set_all on a wrapper
SetAll(h, descriptor) ==
  /\ set_all(h, descriptor)
  /\ UNCHANGED exceptDevice

NextDevice ==
  \/ \E h \in Handles : Lock(h)
  \/ \E h \in Handles : Unlock(h)
  \/ \E h \in Handles, descriptor \in Descriptors : SetAll(h, descriptor)

SpecDevice == InitDevice /\ [][NextDevice]_vars

(***************************************************************************)
(* The threaded camera                                                     *)
(*                                                                         *)
(* The capture delegate of the bindings sends every sample buffer that     *)
(* holds a pixel buffer into an unbounded channel.  One worker thread      *)
(* reads the frames from the session one at a time, hands each to the      *)
(* callback and pushes it into the queue of poll_frame.  A frame is named  *)
(* by its place in the order of capture.                                   *)
(***************************************************************************)

\* most sample buffers the native session outputs
MaxFrames == 3

\* the wrapper the threaded camera owns
CameraHandle == 1

\* the native formats of the device the threaded camera is opened on
StreamFormats ==
  <<[dimensions |-> [width_x |-> 1000, height_y |-> 1000],
     media_subtype |-> "mjpg", ranges |-> <<3000>>]>>

\* Sender::send putting the message before the ones already queued
SendFront(channel, frame) == <<frame>> \o channel

\* Sender::send on the unbounded channel: the message is queued last
Send(channel, frame) == Append(channel, frame)

\* the device is found, the wrapper is made, no camera is configured yet
InitStream ==
  /\ native_formats = StreamFormats
  /\ in_use_by_another_application \in BOOLEAN
  /\ locked = [h \in Handles |-> FALSE]
  /\ native_lock = [h \in Handles |-> 0]
  /\ active_format = None
  /\ active_min_frame_duration = None
  /\ active_max_frame_duration = None
  /\ call_handle = None
  /\ call_method = "from_unique_id"
  /\ call_descriptor = None
  /\ call_result = None
  /\ stream_pc = "closed"
  /\ worker_pc = "not spawned"
  /\ stop_signal = FALSE
  /\ worker_frame = None
  /\ captured = 0
  /\ sender_strong = 0
  /\ receiver_alive = FALSE
  /\ delegate_channel = <<>>
  /\ handed = <<>>
  /\ poll_queue = <<>>
  /\ callbacks = <<>>
  /\ polled = <<>>
  /\ FulfillUnused
  /\ OrdUnused
  /\ SetterUnused
  /\ ControlUnused
  /\ QueryUnused
  /\ UtilsUnused
  /\ ConvertUnused
  /\ DistanceUnused

\* new(device, requested_format, on_frame): the format is resolved and
\* applied at once; on a failure no camera is made
CameraNew ==
  /\ stream_pc = "closed"
  /\ \E descriptor \in Descriptors : set_all(CameraHandle, descriptor)
  /\ stream_pc' = IF call_result' = Ok THEN "configured" ELSE "closed"
  /\ UNCHANGED <<worker_pc, stop_signal, worker_frame, captured, sender_strong,
                 receiver_alive, delegate_channel, handed, poll_queue,
                 callbacks, polled>>
  /\ UNCHANGED exceptStream

\* open_stream(): the channel is made, its Sender is given to the delegate
\* by set_sender (Arc::into_raw keeps one strong reference), the session is
\* started and exactly one worker is spawned
OpenStream ==
  /\ stream_pc = "configured"
  /\ stream_pc' = "streaming"
  /\ worker_pc' = "idle"
  /\ sender_strong' = 1
  /\ receiver_alive' = TRUE
  /\ UNCHANGED <<stop_signal, worker_frame, captured, delegate_channel, handed,
                 poll_queue, callbacks, polled>>
  /\ UNCHANGED deviceVars
  /\ UNCHANGED exceptStream

\* captureOutput:didOutputSampleBuffer:fromConnection: on the delegate.  A
\* sample buffer without a pixel buffer is passed over.  The Arc rebuilt from
\* the raw pointer is forgotten after a send that succeeds and dropped after
\* one that fails.  Once the count has reached zero the Sender is freed and
\* the pointer dangles: what the callback then does is not defined, and it
\* either finds the send failing again or ends the process.
CaptureOutput ==
  /\ stream_pc \in {"streaming", "joining", "stopped", "dropped"}
  /\ captured < MaxFrames
  /\ captured' = captured + 1
  /\ \E pixel_buffer \in BOOLEAN, undefined \in {"send fails", "abort"} :
       IF ~pixel_buffer
         THEN UNCHANGED <<stream_pc, worker_pc, sender_strong, delegate_channel,
                          handed>>
         ELSE IF sender_strong = 0
           THEN /\ stream_pc' = IF undefined = "abort" THEN "aborted" ELSE stream_pc
                /\ worker_pc' = IF undefined = "abort" THEN "aborted" ELSE worker_pc
                /\ UNCHANGED <<sender_strong, delegate_channel, handed>>
           ELSE IF receiver_alive
             THEN /\ delegate_channel' = Send(delegate_channel, captured + 1)
                  /\ handed' = Append(handed, captured + 1)
                  /\ UNCHANGED <<stream_pc, worker_pc, sender_strong>>
             ELSE /\ sender_strong' = sender_strong - 1
                  /\ UNCHANGED <<stream_pc, worker_pc, delegate_channel, handed>>
  /\ UNCHANGED <<stop_signal, worker_frame, receiver_alive, poll_queue,
                 callbacks, polled>>
  /\ UNCHANGED deviceVars
  /\ UNCHANGED exceptStream

\* the worker at the top of its loop: it leaves when it has been signalled
\* and starts the next blocking read otherwise
WorkerLoop ==
  /\ worker_pc = "idle"
  /\ worker_pc' = IF stop_signal THEN "terminated" ELSE "reading"
  /\ UNCHANGED <<stream_pc, stop_signal, worker_frame, captured, sender_strong,
                 receiver_alive, delegate_channel, handed, poll_queue,
                 callbacks, polled>>
  /\ UNCHANGED deviceVars
  /\ UNCHANGED exceptStream

\* the blocking read returns the frame that was sent first
ReadReturns ==
  /\ worker_pc = "reading"
  /\ delegate_channel # <<>>
  /\ worker_frame' = Some(Head(delegate_channel))
  /\ delegate_channel' = Tail(delegate_channel)
  /\ worker_pc' = "delivering"
  /\ UNCHANGED <<stream_pc, stop_signal, captured, sender_strong, receiver_alive,
                 handed, poll_queue, callbacks, polled>>
  /\ UNCHANGED deviceVars
  /\ UNCHANGED exceptStream

\* the blocking read runs into the read timeout of the backend
ReadTimesOut ==
  /\ worker_pc = "reading"
  /\ delegate_channel = <<>>
  /\ worker_pc' = "idle"
  /\ UNCHANGED <<stream_pc, stop_signal, worker_frame, captured, sender_strong,
                 receiver_alive, delegate_channel, handed, poll_queue,
                 callbacks, polled>>
  /\ UNCHANGED deviceVars
  /\ UNCHANGED exceptStream

\* on_frame(frame) on the worker thread, and the frame pushed into the queue
Deliver ==
  /\ worker_pc = "delivering"
  /\ callbacks' = Append(callbacks, worker_frame[1])
  /\ poll_queue' = Append(poll_queue, worker_frame[1])
  /\ worker_frame' = None
  /\ worker_pc' = "idle"
  /\ UNCHANGED <<stream_pc, stop_signal, captured, sender_strong, receiver_alive,
                 delegate_channel, handed, polled>>
  /\ UNCHANGED deviceVars
  /\ UNCHANGED exceptStream

\* poll_frame(): blocks until a frame is in the queue and returns it
PollFrame ==
  /\ stream_pc \in {"streaming", "stopped"}
  /\ poll_queue # <<>>
  /\ polled' = Append(polled, Head(poll_queue))
  /\ poll_queue' = Tail(poll_queue)
  /\ UNCHANGED <<stream_pc, worker_pc, stop_signal, worker_frame, captured,
                 sender_strong, receiver_alive, delegate_channel, handed,
                 callbacks>>
  /\ UNCHANGED deviceVars
  /\ UNCHANGED exceptStream

\* stop_stream(): the worker is signalled and the caller waits in join
StopStream ==
  /\ stream_pc = "streaming"
  /\ stop_signal' = TRUE
  /\ stream_pc' = "joining"
  /\ UNCHANGED <<worker_pc, worker_frame, captured, sender_strong, receiver_alive,
                 delegate_channel, handed, poll_queue, callbacks, polled>>
  /\ UNCHANGED deviceVars
  /\ UNCHANGED exceptStream

\* join returns once the worker has left; the device lock is given back
\* through unlock() of the wrapper, and stop_stream returns
JoinReturns ==
  /\ stream_pc = "joining"
  /\ worker_pc = "terminated"
  /\ stream_pc' = "stopped"
  /\ unlock(CameraHandle)
  /\ UNCHANGED <<worker_pc, stop_signal, worker_frame, captured, sender_strong,
                 receiver_alive, delegate_channel, handed, poll_queue,
                 callbacks, polled>>
  /\ UNCHANGED exceptStream

\* the stopped camera is dropped, and the Receiver with it
Drop ==
  /\ stream_pc = "stopped"
  /\ stream_pc' = "dropped"
  /\ receiver_alive' = FALSE
  /\ UNCHANGED <<worker_pc, stop_signal, worker_frame, captured, sender_strong,
                 delegate_channel, handed, poll_queue, callbacks, polled>>
  /\ UNCHANGED deviceVars
  /\ UNCHANGED exceptStream

NextStream ==
  \/ CameraNew
  \/ OpenStream
  \/ CaptureOutput
  \/ WorkerLoop
  \/ ReadReturns
  \/ ReadTimesOut
  \/ Deliver
  \/ PollFrame
  \/ StopStream
  \/ JoinReturns
  \/ Drop

SpecStream == InitStream /\ [][NextStream]_vars

(***************************************************************************)
(* ControlValueDescription::verify_setter (jaenokhwa-core/src/types.rs)    *)
(*                                                                         *)
(* A description and a setter are a pair of a variant name and its fields. *)
(* The f64 fields take whole values; of the coordinates of a Point only    *)
(* the class (finite, NaN, infinite) is kept.  All values are small: no    *)
(* sum or difference leaves the range of isize.                            *)
(***************************************************************************)

\* value and default of a description
Values == {0, 1}

\* step of a description
Steps == {0, 1, 2, -2, 3}

\* min and max of a range description
Mins == {0, 1}

Maxs == {1, 2}

\* the numbers a setter carries
SetterValues == -1..3

\* the classes of an f64 coordinate
FloatClasses == {"finite", "NaN", "infinite"}

ControlValueDescription ==
       {<<"None", [value |-> 0]>>}
  \cup {<<"Integer", f>> : f \in [value : Values, default : Values, step : Steps]}
  \cup {<<"IntegerRange", f>> :
          f \in [min : Mins, max : Maxs, value : Values, step : Steps,
                 default : Values]}
  \cup {<<"Float", f>> : f \in [value : Values, default : Values, step : Steps]}
  \cup {<<"FloatRange", f>> :
          f \in [min : Mins, max : Maxs, value : Values, step : Steps,
                 default : Values]}
  \cup {<<"Boolean", f>> : f \in [value : BOOLEAN, default : BOOLEAN]}
  \cup {<<"String", [value |-> "a", default |-> None]>>}
  \cup {<<"Bytes", [value |-> <<0>>, default |-> <<>>]>>}
  \cup {<<"KeyValuePair", [key |-> 0, value |-> 1, default |-> <<0, 0>>]>>}
  \cup {<<"Point", [value |-> <<"finite", "finite">>,
                    default |-> <<"finite", "finite">>]>>}
  \cup {<<"Enum", f>> :
          f \in [value : {0}, possible : {<<>>, <<0>>, <<0, 2>>}, default : {0}]}
  \cup {<<"RGB", f>> :
          f \in [value : {<<0, 0, 0>>}, max : {<<1, 1, 1>>, <<0, 2, 1>>},
                 default : {<<0, 0, 0>>}]}

ControlValueSetter ==
       {<<"None">>}
  \cup {<<"Integer", i>> : i \in SetterValues}
  \cup {<<"Float", f>> : f \in SetterValues}
  \cup {<<"Boolean", b>> : b \in BOOLEAN}
  \cup {<<"String", "a">>}
  \cup {<<"Bytes", <<0>>>>}
  \cup {<<"KeyValue", 0, 1>>}
  \cup {<<"Point", x, y>> : x \in FloatClasses, y \in FloatClasses}
  \cup {<<"EnumValue", e>> : e \in 0..2}
  \cup {<<"RGB", r, g, b>> : r \in 0..2, g \in 0..2, b \in 0..2}

\* the accessors of ControlValueSetter
as_none(s) == IF s[1] = "None" THEN Some(<<>>) ELSE None

as_integer(s) == IF s[1] = "Integer" THEN Some(s[2]) ELSE None

as_float(s) == IF s[1] = "Float" THEN Some(s[2]) ELSE None

as_boolean(s) == IF s[1] = "Boolean" THEN Some(s[2]) ELSE None

as_str(s) == IF s[1] = "String" THEN Some(s[2]) ELSE None

as_bytes(s) == IF s[1] = "Bytes" THEN Some(s[2]) ELSE None

as_key_value(s) == IF s[1] = "KeyValue" THEN Some(<<s[2], s[3]>>) ELSE None

as_point(s) == IF s[1] = "Point" THEN Some(<<s[2], s[3]>>) ELSE None

as_enum(s) == IF s[1] = "EnumValue" THEN Some(s[2]) ELSE None

as_rgb(s) == IF s[1] = "RGB" THEN Some(<<s[2], s[3], s[4]>>) ELSE None

\* a % b of Rust for b # 0: the remainder has the sign of a
Rem(a, b) ==
  LET r == Abs(a) % Abs(b)
  IN  IF a < 0 THEN 0 - r ELSE r

\* the arm of Integer
VerifyInteger(d, s) ==
  IF d.step = 0 THEN TRUE
  ELSE IF as_integer(s) # None
    THEN LET i == as_integer(s)[1]
         IN  Rem(i + d.default, d.step) = 0 \/ Rem(i + d.value, d.step) = 0
    ELSE FALSE

\* VerifyIntegerRange without the comparison with min and max
VerifyIntegerRangeUnbounded(d, s) ==
  IF d.step = 0 THEN TRUE
  ELSE IF as_integer(s) # None
    THEN LET i == as_integer(s)[1]
         IN  Rem(i + d.default, d.step) = 0 \/ Rem(i + d.value, d.step) = 0
    ELSE FALSE

\* the arm of IntegerRange
VerifyIntegerRange(d, s) ==
  IF d.step = 0 THEN TRUE
  ELSE IF as_integer(s) # None
    THEN LET i == as_integer(s)[1]
         IN  /\ Rem(i + d.default, d.step) = 0 \/ Rem(i + d.value, d.step) = 0
             /\ i >= d.min
             /\ i <= d.max
    ELSE FALSE

\* the arm of Float
VerifyFloat(d, s) ==
  IF Abs(d.step) = 0 THEN TRUE
  ELSE IF as_float(s) # None
    THEN LET f == as_float(s)[1]
         IN  Rem(Abs(f - d.default), d.step) = 0 \/ Rem(f - d.value, d.step) = 0
    ELSE FALSE

\* VerifyFloatRange with a zero step checked like any other step that
\* every number is a multiple of
VerifyFloatRangeZeroStepChecked(d, s) ==
  IF as_float(s) # None
    THEN LET f == as_float(s)[1]
         IN  /\ \/ Abs(d.step) = 0
                \/ Rem(Abs(f - d.default), d.step) = 0
                \/ Rem(f - d.value, d.step) = 0
             /\ f >= d.min
             /\ f <= d.max
    ELSE FALSE

\* the arm of FloatRange
VerifyFloatRange(d, s) ==
  IF Abs(d.step) = 0 THEN TRUE
  ELSE IF as_float(s) # None
    THEN LET f == as_float(s)[1]
         IN  /\ \/ Rem(Abs(f - d.default), d.step) = 0
                \/ Rem(f - d.value, d.step) = 0
             /\ f >= d.min
             /\ f <= d.max
    ELSE FALSE

\* the arm of Point: both coordinates are neither NaN nor infinite
VerifyPoint(d, s) ==
  IF as_point(s) # None
    THEN LET pt == as_point(s)[1]
         IN  /\ pt[1] # "NaN" /\ pt[2] # "NaN"
             /\ pt[1] = "finite" /\ pt[2] = "finite"
    ELSE FALSE

\* the arm of Enum
VerifyEnum(d, s) ==
  IF as_enum(s) # None
    THEN \E k \in DOMAIN d.possible : d.possible[k] = as_enum(s)[1]
    ELSE FALSE

\* the arm of RGB
VerifyRGB(d, s) ==
  IF as_rgb(s) # None
    THEN LET v == as_rgb(s)[1]
         IN  v[1] >= d.max[1] /\ v[2] >= d.max[2] /\ v[3] >= d.max[3]
    ELSE FALSE

\* self.value(): the current value of the description as a setter
DescriptionValue(self) ==
  CASE self[1] = "None" -> <<"None">>
    [] self[1] \in {"Integer", "IntegerRange"} -> <<"Integer", self[2].value>>
    [] self[1] \in {"Float", "FloatRange"} -> <<"Float", self[2].value>>
    [] self[1] = "Boolean" -> <<"Boolean", self[2].value>>
    [] self[1] = "String" -> <<"String", self[2].value>>
    [] self[1] = "Bytes" -> <<"Bytes", self[2].value>>
    [] self[1] = "KeyValuePair" -> <<"KeyValue", self[2].key, self[2].value>>
    [] self[1] = "Point" -> <<"Point", self[2].value[1], self[2].value[2]>>
    [] self[1] = "Enum" -> <<"EnumValue", self[2].value>>
    [] self[1] = "RGB" ->
         <<"RGB", self[2].value[1], self[2].value[2], self[2].value[3]>>

\* verify_setter(&self, setter)
verify_setter(self, s) ==
  CASE self[1] = "None" -> as_none(s) # None
    [] self[1] = "Integer" -> VerifyInteger(self[2], s)
    [] self[1] = "IntegerRange" -> VerifyIntegerRange(self[2], s)
    [] self[1] = "Float" -> VerifyFloat(self[2], s)
    [] self[1] = "FloatRange" -> VerifyFloatRange(self[2], s)
    [] self[1] = "Boolean" -> as_boolean(s) # None
    [] self[1] = "String" -> as_str(s) # None
    [] self[1] = "Bytes" -> as_bytes(s) # None
    [] self[1] = "KeyValuePair" -> as_key_value(s) # None
    [] self[1] = "Point" -> VerifyPoint(self[2], s)
    [] self[1] = "Enum" -> VerifyEnum(self[2], s)
    [] self[1] = "RGB" -> VerifyRGB(self[2], s)

\* a description and a setter to verify against it
InitSetter ==
  /\ description \in ControlValueDescription
  /\ setter \in ControlValueSetter
  /\ verified = None
  /\ FulfillUnused
  /\ OrdUnused
  /\ DeviceUnused
  /\ StreamUnused
  /\ ControlUnused
  /\ QueryUnused
  /\ UtilsUnused
  /\ ConvertUnused
  /\ DistanceUnused

\* description.verify_setter(&setter)
VerifySetter ==
  /\ verified = None
  /\ verified' = Some(verify_setter(description, setter))
  /\ UNCHANGED <<description, setter>>
  /\ UNCHANGED exceptSetter

NextSetter == VerifySetter

SpecSetter == InitSetter /\ [][NextSetter]_vars

(***************************************************************************)
(* AVCaptureDeviceWrapper::set_control                                     *)
(* (jaenokhwa-bindings-macos/src/lib.rs)                                   *)
(*                                                                         *)
(* The state of the native device is the list of the setter messages it    *)
(* has received.  The flag list of a control is only asked what it         *)
(* contains, so it is a set.                                               *)
(***************************************************************************)

\* most setter messages sent to the native device
MaxMessages == 2

\* the platforms the binding is built for
TargetOs == {"ios", "macos"}

\* KnownCameraControl: the ids set_control has an arm for, and one it has not
KnownCameraControl ==
  {"Brightness", "Gamma", "WhiteBalance", "BacklightComp", "Gain", "Zoom",
   "Exposure", "Iris", "Focus", "Contrast"}

\* the flag lists get_controls builds
FlagLists ==
  {{}, {"Volatile"}, {"ReadOnly", "Volatile"}, {"Disabled", "ReadOnly"},
   {"Disabled"}, {"ReadOnly"}}

\* the descriptions of the controls
ControlDescriptions ==
  {<<"FloatRange", [min |-> 0, max |-> 2, value |-> 1, step |-> 1, default |-> 1]>>,
   <<"IntegerRange", [min |-> 0, max |-> 2, value |-> 1, step |-> 1, default |-> 1]>>,
   <<"Enum", [value |-> 0, possible |-> <<0, 2>>, default |-> 0]>>,
   <<"Boolean", [value |-> TRUE, default |-> FALSE]>>}

\* the values handed to set_control
ControlValues ==
  {<<"Float", 1>>, <<"Float", 3>>, <<"Integer", 1>>, <<"EnumValue", 0>>,
   <<"EnumValue", 1>>, <<"Boolean", TRUE>>}

\* CameraControl: the id, the description and the flags
CameraControl ==
  [control : KnownCameraControl, description : ControlDescriptions, flag : FlagLists]

\* what get_controls may report: at most one control
ControlLists == {<<>>} \cup {<<c>> : c \in CameraControl}

\* NokhwaError::SetPropertyError with the property and the error text
SetPropertyError(property, error) == <<"SetPropertyError", property, error>>

\* controls.get(&id) on the map made of the list
ControlsGet(list, id) ==
  LET found == {k \in DOMAIN list : list[k].control = id}
  IN  IF found = {} THEN None
      ELSE Some(list[CHOOSE k \in found : \A j \in found : j <= k])

\* the arms that look the control up and send a setter message
SettableControls ==
  {"Brightness", "Gamma", "WhiteBalance", "BacklightComp", "Gain", "Zoom",
   "Exposure", "Focus"}

\* the error text of an arm for a control flagged ReadOnly (the two long
\* texts without their advice in parentheses)
ReadOnlyError(id) ==
  CASE id = "Brightness" ->
         "Exposure is in improper state to set ISO"
    [] id = "Gamma" ->
         "Exposure is in improper state to set Duration"
    [] OTHER -> "Read Only"

\* FlagError without the test for Disabled
FlagErrorReadOnlyOnly(id, flag) ==
  IF "ReadOnly" \in flag THEN Some(SetPropertyError(id, ReadOnlyError(id)))
  ELSE None

\* the two tests of the flags at the head of each arm
FlagError(id, flag) ==
  IF "ReadOnly" \in flag THEN Some(SetPropertyError(id, ReadOnlyError(id)))
  ELSE IF "Disabled" \in flag THEN Some(SetPropertyError(id, "Disabled"))
  ELSE None

\* the value as the arm reads it: value.as_float(), as_integer(), ...
ArmValue(id, value) ==
  CASE id \in {"Brightness", "Zoom"} -> as_float(value)
    [] id = "Gamma" -> as_integer(value)
    [] id \in {"WhiteBalance", "BacklightComp", "Exposure", "Focus"} -> as_enum(value)
    [] id = "Gain" -> as_boolean(value)

\* the error text of an arm for a value of another variant
ExpectedError(id) ==
  CASE id \in {"Brightness", "Zoom"} -> "Expected float"
    [] id = "Gamma" -> "Expected i64"
    [] id \in {"WhiteBalance", "BacklightComp", "Exposure", "Focus"} -> "Expected Enum"
    [] id = "Gain" -> "Expected Boolean"

\* the selector of the message an arm sends
Selector(id) ==
  CASE id \in {"Brightness", "Gamma"} ->
         "setExposureModeCustomWithDuration:ISO:completionHandler:"
    [] id \in {"WhiteBalance", "BacklightComp", "Gain"} -> "whiteBalanceMode:"
    [] id = "Zoom" -> "rampToVideoZoomFactor:withRate:"
    [] id = "Exposure" -> "exposureMode:"
    [] id = "Focus" -> "focusMode:"

\* set_control(&mut self, id, value): what it returns and the message it
\* sends to the native device, if any
set_control(os, list, id, value) ==
  IF os # "ios"
    THEN [result |-> SetPropertyError(id, "Control not supported"), message |-> None]
  ELSE IF id = "Iris"
    THEN [result |-> SetPropertyError(id, "Read Only"), message |-> None]
  ELSE IF id \notin SettableControls
    THEN [result |-> SetPropertyError(id, "Control not supported"), message |-> None]
  ELSE IF ControlsGet(list, id) = None
    THEN [result |-> SetPropertyError(id, "Control does not exist"), message |-> None]
  ELSE LET ctrlvalue == ControlsGet(list, id)[1]
       IN  IF FlagError(id, ctrlvalue.flag) # None
             THEN [result |-> FlagError(id, ctrlvalue.flag)[1], message |-> None]
           ELSE IF ArmValue(id, value) = None
             THEN [result |-> SetPropertyError(id, ExpectedError(id)),
                   message |-> None]
           ELSE IF ~verify_setter(ctrlvalue.description, value)
             THEN [result |-> SetPropertyError(id, "Failed to verify value"),
                   message |-> None]
           ELSE [result |-> Ok,
                 message |-> Some(<<Selector(id), ArmValue(id, value)[1]>>)]

\* a wrapper on a device, and the controls the device reports
InitControl ==
  /\ target_os \in TargetOs
  /\ controls \in ControlLists
  /\ native_messages = <<>>
  /\ control_id = None
  /\ control_value = None
  /\ control_result = None
  /\ FulfillUnused
  /\ OrdUnused
  /\ DeviceUnused
  /\ StreamUnused
  /\ SetterUnused
  /\ QueryUnused
  /\ UtilsUnused
  /\ ConvertUnused
  /\ DistanceUnused

\* a call of set_control
SetControl(id, value) ==
  /\ Len(native_messages) < MaxMessages
  /\ control_id' = Some(id)
  /\ control_value' = Some(value)
  /\ control_result' = Some(set_control(target_os, controls, id, value).result)
  /\ native_messages' =
       native_messages \o set_control(target_os, controls, id, value).message
  /\ UNCHANGED <<target_os, controls>>
  /\ UNCHANGED exceptControl

NextControl == \E id \in KnownCameraControl, value \in ControlValues : SetControl(id, value)

SpecControl == InitControl /\ [][NextControl]_vars

(***************************************************************************)
(* query (src/query.rs)                                                    *)
(*                                                                         *)
(* std::env::consts::OS and cfg!(target_os) name the same build target, so *)
(* one variable holds both.  The enumeration of a backend that is compiled *)
(* in is code of another crate: its answer is an input.                    *)
(***************************************************************************)

\* std::env::consts::OS; "freebsd" stands for every other target
OperatingSystems == {"linux", "windows", "macos", "ios", "freebsd"}

\* the input features of the crate
Features == {"input-v4l", "input-msmf", "input-avfoundation", "input-jscam"}

ApiBackend == {"Auto", "AVFoundation", "Video4Linux", "MediaFoundation", "Browser"}

UnsupportedOperationError(backend) == <<"UnsupportedOperationError", backend>>

NotImplementedError(text) == <<"NotImplementedError", text>>

\* what the enumeration of a compiled backend answers: a list of devices or
\* an error of its own
NativeResults ==
  {<<"Ok", <<>>>>, <<"Ok", <<"camera0">>>>, <<"StructureError", "enumeration">>}

native_api_backend(os) ==
  CASE os = "linux" -> Some("Video4Linux")
    [] os \in {"macos", "ios"} -> Some("AVFoundation")
    [] os = "windows" -> Some("MediaFoundation")
    [] OTHER -> None

query_v4l(os, feats, native) ==
  IF "input-v4l" \in feats /\ os = "linux"
    THEN native
    ELSE UnsupportedOperationError("Video4Linux")

query_msmf(os, feats, native) ==
  IF "input-msmf" \in feats /\ os = "windows"
    THEN native
    ELSE UnsupportedOperationError("MediaFoundation")

query_avfoundation(os, feats, native) ==
  IF "input-avfoundation" \in feats /\ os \in {"macos", "ios"}
    THEN native
    ELSE UnsupportedOperationError("AVFoundation")

query_wasm(feats, native) ==
  IF "input-jscam" \in feats
    THEN native
    ELSE UnsupportedOperationError("Browser")

\* the arms of query for a backend other than Auto
QueryBackend(os, feats, native, backend) ==
  CASE backend = "AVFoundation" -> query_avfoundation(os, feats, native)
    [] backend = "Video4Linux" -> query_v4l(os, feats, native)
    [] backend = "MediaFoundation" -> query_msmf(os, feats, native)
    [] backend = "Browser" -> query_wasm(feats, native)

\* the arm of query for Auto
QueryAuto(os, feats, native) ==
  CASE os = "linux" ->
         IF "input-v4l" \in feats /\ os = "linux"
           THEN QueryBackend(os, feats, native, "Video4Linux")
           ELSE UnsupportedOperationError("Auto")
    [] os = "windows" ->
         IF "input-msmf" \in feats /\ os = "windows"
           THEN QueryBackend(os, feats, native, "MediaFoundation")
           ELSE UnsupportedOperationError("Auto")
    [] os = "macos" ->
         IF "input-avfoundation" \in feats
           THEN QueryBackend(os, feats, native, "AVFoundation")
           ELSE UnsupportedOperationError("Auto")
    [] os = "ios" ->
         IF "input-avfoundation" \in feats
           THEN QueryBackend(os, feats, native, "AVFoundation")
           ELSE UnsupportedOperationError("Auto")
    [] OTHER -> NotImplementedError("Bad Platform")

query(os, feats, native, backend) ==
  IF backend = "Auto"
    THEN QueryAuto(os, feats, native)
    ELSE QueryBackend(os, feats, native, backend)

\* the query functions of the backends that query(backend) calls, in order:
\* the arm of a named backend calls its own, the arm Auto calls query of
\* the backend of the platform when its feature test passes and none else
Dispatch(os, feats, backend) ==
  CASE backend # "Auto" -> <<backend>>
    [] backend = "Auto" /\ os = "linux" ->
         IF "input-v4l" \in feats /\ os = "linux"
           THEN <<"Video4Linux">> ELSE <<>>
    [] backend = "Auto" /\ os = "windows" ->
         IF "input-msmf" \in feats /\ os = "windows"
           THEN <<"MediaFoundation">> ELSE <<>>
    [] backend = "Auto" /\ os \in {"macos", "ios"} ->
         IF "input-avfoundation" \in feats
           THEN <<"AVFoundation">> ELSE <<>>
    [] OTHER -> <<>>

\* a build of the crate on a system
InitQuery ==
  /\ consts_OS \in OperatingSystems
  /\ features \in SUBSET Features
  /\ native_query \in NativeResults
  /\ api = None
  /\ dispatched = <<>>
  /\ query_result = None
  /\ FulfillUnused
  /\ OrdUnused
  /\ DeviceUnused
  /\ StreamUnused
  /\ SetterUnused
  /\ ControlUnused
  /\ UtilsUnused
  /\ ConvertUnused
  /\ DistanceUnused

\* a call of query
Query(backend) ==
  /\ api' = Some(backend)
  /\ dispatched' = Dispatch(consts_OS, features, backend)
  /\ query_result' = Some(query(consts_OS, features, native_query, backend))
  /\ UNCHANGED <<consts_OS, features, native_query>>
  /\ UNCHANGED exceptQuery

NextQuery == \E backend \in ApiBackend : Query(backend)

SpecQuery == InitQuery /\ [][NextQuery]_vars

(***************************************************************************)
(* CameraControl of the crate root (src/utils.rs)                          *)
(*                                                                         *)
(* The fields are i32 and the values are small: no operation leaves the    *)
(* range of i32.  A control exists only as CameraControl::new built it.    *)
(***************************************************************************)

\* the arguments of CameraControl::new
ControlMinimums == {0, 1}

ControlMaximums == {4, 5}

ControlValueArgs == 0 .. 5

ControlSteps == {-2, 0, 1, 2, 3}

StructureError(error) == <<"StructureError", error>>

\* a remainder by zero panics
Panic == <<"panic">>

\* CameraControl::new: the control, or the error; control, default, flag
\* and active are stored and never read by the methods below
camera_control_new(minimum, maximum, value, step) ==
  IF value >= maximum THEN [result |-> StructureError("Value too large"), control |-> None]
  ELSE IF value <= minimum THEN [result |-> StructureError("Value too low"), control |-> None]
  ELSE IF step = 0 THEN [result |-> Panic, control |-> None]
  ELSE IF Rem(value, step) # 0
    THEN [result |-> StructureError("Not aligned with step"), control |-> None]
  ELSE [result |-> Ok,
        control |-> Some([min |-> minimum, max |-> maximum, value |-> value,
                          step |-> step])]

\* self.set_value(value): what it returns and the control afterwards
set_value(self, value) ==
  IF value >= self.max THEN [result |-> StructureError("Value too large"), control |-> self]
  ELSE IF value <= self.min THEN [result |-> StructureError("Value too low"), control |-> self]
  ELSE IF value = self.min \/ value = self.max
    THEN [result |-> StructureError("Values not inclusive"), control |-> self]
  ELSE IF self.step = 0 THEN [result |-> Panic, control |-> self]
  ELSE IF Rem(value, self.step) # 0
    THEN [result |-> StructureError("Not aligned with step"), control |-> self]
  ELSE [result |-> Ok, control |-> [self EXCEPT !.value = value]]

\* (start..=end).step_by(step).collect(): start, start + step, .. up to end
RECURSIVE StepBy(_, _, _)
StepBy(start, end, step) ==
  IF start > end THEN <<>> ELSE <<start>> \o StepBy(start + step, end, step)

\* self.valid_values(): step as usize of a negative step is above every
\* i32, so the iterator yields the minimum and ends; step_by(0) panics
valid_values(self) ==
  IF self.step = 0 THEN Panic
  ELSE IF self.step < 0
    THEN Some(IF self.min > self.max THEN <<>> ELSE <<self.min>>)
  ELSE Some(StepBy(self.min, self.max, self.step))

\* no control yet
InitUtils ==
  /\ camera_control = None
  /\ valid_values_list = None
  /\ set_value_arg = None
  /\ set_value_result = None
  /\ FulfillUnused
  /\ OrdUnused
  /\ DeviceUnused
  /\ StreamUnused
  /\ SetterUnused
  /\ ControlUnused
  /\ QueryUnused
  /\ ConvertUnused
  /\ DistanceUnused

\* CameraControl::new(..) returned Ok
NewCameraControl(minimum, maximum, value, step) ==
  /\ camera_control = None
  /\ camera_control_new(minimum, maximum, value, step).result = Ok
  /\ camera_control' = camera_control_new(minimum, maximum, value, step).control
  /\ UNCHANGED <<valid_values_list, set_value_arg, set_value_result>>
  /\ UNCHANGED exceptUtils

\* a call of valid_values
ValidValues ==
  /\ camera_control # None
  /\ valid_values_list' = valid_values(camera_control[1])
  /\ UNCHANGED <<camera_control, set_value_arg, set_value_result>>
  /\ UNCHANGED exceptUtils

\* a call of set_value
SetValue(value) ==
  /\ camera_control # None
  /\ set_value_arg' = Some(value)
  /\ set_value_result' = Some(set_value(camera_control[1], value).result)
  /\ camera_control' = Some(set_value(camera_control[1], value).control)
  /\ UNCHANGED valid_values_list
  /\ UNCHANGED exceptUtils

NextUtils ==
  \/ \E minimum \in ControlMinimums, maximum \in ControlMaximums,
        value \in ControlValueArgs, step \in ControlSteps :
       NewCameraControl(minimum, maximum, value, step)
  \/ ValidValues
  \/ \E value \in ControlValueArgs : SetValue(value)

SpecUtils == InitUtils /\ [][NextUtils]_vars

(***************************************************************************)
(* ConvertToRgb::convert_to_rgb of FrameBuffer (src/convert_to_rgb.rs)     *)
(*                                                                         *)
(* A buffer is its length.  The scaler and the Video frames are the        *)
(* foreign library's: whether Context::get succeeds and how long plane 0   *)
(* of the input Video is (its rows may be padded) are inputs.  Widths and  *)
(* heights are small: width * height * 2 stays within usize.               *)
(***************************************************************************)

FrameWidths == {1, 2}

FrameHeights == {1, 2}

\* "MJPEG" stands for every format other than the two converted
SourceFrameFormats == {"YUV420", "UYVY_APPLE", "MJPEG"}

\* longest buffer of a frame
MaxBufferLen == 9

FrameBuffer ==
  [width : FrameWidths, height : FrameHeights,
   source_frame_format : SourceFrameFormats, buffer_len : 0 .. MaxBufferLen]

\* bytes of padding the foreign library may add to the rows of plane 0
Paddings == {0, 4}

\* bytes of one row of plane 0: YUV420P keeps one byte a pixel in plane 0,
\* UYVY422 two
RowBytes(f) == IF f.source_frame_format = "YUV420" THEN f.width ELSE 2 * f.width

ConvertPanic(message) == <<"panic", message>>

Converted == <<"converted">>

\* self.convert_to_rgb(output_format)
convert_to_rgb(self, context, plane_len) ==
  IF self.source_frame_format \notin {"YUV420", "UYVY_APPLE"}
    THEN ConvertPanic("Unsupported pixel format")
  ELSE IF context = "Err" THEN ConvertPanic("Error creating scaler")
  ELSE LET expected_size == self.width * self.height * 2
       IN  IF ~(self.buffer_len # expected_size)
             THEN ConvertPanic("Buffer size does not match expected size")
           ELSE IF plane_len # self.buffer_len
             THEN ConvertPanic("copy_from_slice: lengths differ")
           ELSE Converted

\* a frame, and what the foreign library will answer
InitConvert ==
  /\ frame_buffer \in {Some(f) : f \in FrameBuffer}
  /\ scaler \in {"Ok", "Err"}
  /\ \E padding \in Paddings :
       input_plane_len = (RowBytes(frame_buffer[1]) + padding) * frame_buffer[1].height
  /\ convert_result = None
  /\ FulfillUnused
  /\ OrdUnused
  /\ DeviceUnused
  /\ StreamUnused
  /\ SetterUnused
  /\ ControlUnused
  /\ QueryUnused
  /\ UtilsUnused
  /\ DistanceUnused

\* a call of convert_to_rgb
ConvertToRgb ==
  /\ convert_result = None
  /\ convert_result' = Some(convert_to_rgb(frame_buffer[1], scaler, input_plane_len))
  /\ UNCHANGED <<frame_buffer, scaler, input_plane_len>>
  /\ UNCHANGED exceptConvert

NextConvert == ConvertToRgb

SpecConvert == InitConvert /\ [][NextConvert]_vars

(***************************************************************************)
(* dist_no_sqrt of Closest on the whole range of u32                       *)
(* (jaenokhwa-core/src/types.rs)                                           *)
(*                                                                         *)
(* A u32 or an i32 is its four bytes, lowest first; i32 is two's           *)
(* complement.  The cast as i32 keeps the bytes and changes their reading. *)
(* An overflowing -, abs, pow or + panics in a build with overflow checks  *)
(* and wraps in a build without.                                           *)
(***************************************************************************)

\* the word hi * 2^16 + lo
Word(hi, lo) == <<lo % 256, lo \div 256, hi % 256, hi \div 256>>

\* widths: 1000, 1001, 1000 + 46341, 1000 + 2^16, 1000 + 2^31, 2^32 - 1
U32Widths ==
  {Word(0, 1000), Word(0, 1001), Word(0, 47341), Word(1, 1000),
   Word(32768, 1000), Word(65535, 65535)}

\* heights: 999, 1000
U32Heights == {Word(0, 999), Word(0, 1000)}

Resolutions32 == [width_x : U32Widths, height_y : U32Heights]

\* carry out of byte i of a + b + c
RECURSIVE AddCarry(_, _, _, _)
AddCarry(a, b, c, i) ==
  IF i = 0 THEN c ELSE (a[i] + b[i] + AddCarry(a, b, c, i - 1)) \div 256

\* a + b + c on the bytes, the carry out of the highest byte dropped
AddBytes(a, b, c) ==
  [i \in 1..Len(a) |-> (a[i] + b[i] + AddCarry(a, b, c, i - 1)) % 256]

NotBytes(a) == [i \in 1..Len(a) |-> 255 - a[i]]

\* the sign bit of an i32
IsNegative(a) == a[Len(a)] >= 128

\* i32::wrapping_add, i32::wrapping_sub, i32::wrapping_neg
WrappingAdd(a, b) == AddBytes(a, b, 0)

WrappingSub(a, b) == AddBytes(a, NotBytes(b), 1)

WrappingNeg(a) == AddBytes(NotBytes(a), [i \in 1..Len(a) |-> 0], 1)

\* i32::wrapping_abs: i32::MIN stays i32::MIN
WrappingAbs(a) == IF IsNegative(a) THEN WrappingNeg(a) ELSE a

\* the sum of the byte products a[i] * b[k + 1 - i] for i in 1..n
RECURSIVE ColumnSum(_, _, _, _)
ColumnSum(a, b, k, n) ==
  IF n = 0 THEN 0
  ELSE (IF n <= Len(a) /\ k + 1 - n >= 1 /\ k + 1 - n <= Len(b)
          THEN a[n] * b[k + 1 - n] ELSE 0)
       + ColumnSum(a, b, k, n - 1)

\* carry out of byte k of a * b
RECURSIVE MulCarry(_, _, _)
MulCarry(a, b, k) ==
  IF k = 0 THEN 0 ELSE (ColumnSum(a, b, k, k) + MulCarry(a, b, k - 1)) \div 256

\* the full product of the unsigned readings, Len(a) + Len(b) bytes
WideningMul(a, b) ==
  [k \in 1..(Len(a) + Len(b)) |->
     (ColumnSum(a, b, k, k) + MulCarry(a, b, k - 1)) % 256]

\* i32::wrapping_mul: the low four bytes of the product
WrappingMul(a, b) == SubSeq(WideningMul(a, b), 1, 4)

\* the unsigned reading of a is below that of b, decided from byte n down
RECURSIVE LessFrom(_, _, _)
LessFrom(a, b, n) ==
  IF n = 0 THEN FALSE
  ELSE IF a[n] # b[n] THEN a[n] < b[n]
  ELSE LessFrom(a, b, n - 1)

UnsignedLess(a, b) == LessFrom(a, b, Len(a))

\* i32::cmp is Less
SignedLess(a, b) ==
  IF IsNegative(a) # IsNegative(b) THEN IsNegative(a) ELSE UnsignedLess(a, b)

I32Min == <<0, 0, 0, 128>>

\* a - b leaves the range of i32
SubOverflows(a, b) ==
  IsNegative(a) # IsNegative(b) /\ IsNegative(WrappingSub(a, b)) # IsNegative(a)

\* a.abs() leaves the range of i32
AbsOverflows(a) == a = I32Min

\* a.pow(2) leaves the range of i32; a is what abs returned
PowOverflows(a) ==
  LET p == WideningMul(a, a)
  IN  p[4] >= 128 \/ \E i \in 5..8 : p[i] # 0

\* a + b leaves the range of i32
AddOverflows(a, b) ==
  IsNegative(a) = IsNegative(b) /\ IsNegative(WrappingAdd(a, b)) # IsNegative(a)

\* dist_no_sqrt of one candidate: the i32, or the panic of an overflow check
DistNoSqrtI32(res, c, checks) ==
  LET x_diff == WrappingSub(res.width_x, c.width_x)
      y_diff == WrappingSub(res.height_y, c.height_y)
      x_abs == WrappingAbs(x_diff)
      y_abs == WrappingAbs(y_diff)
      x_pow == WrappingMul(x_abs, x_abs)
      y_pow == WrappingMul(y_abs, y_abs)
      overflow ==
        \/ SubOverflows(res.width_x, c.width_x)
        \/ SubOverflows(res.height_y, c.height_y)
        \/ AbsOverflows(x_diff)
        \/ PowOverflows(x_abs)
        \/ AbsOverflows(y_diff)
        \/ PowOverflows(y_abs)
        \/ AddOverflows(x_pow, y_pow)
  IN  IF checks /\ overflow THEN <<"panic">>
      ELSE <<"i32", WrappingAdd(x_pow, y_pow)>>

\* resolution_map after sort_by and dedup_by: the position of its first
\* entry in the list of candidates.  The sort is stable, so it is the first
\* of the candidates at the least distance.
RankedFirst(dists) ==
  IF \E k \in 1..Len(dists) : dists[k][1] = "panic" THEN None
  ELSE Some(CHOOSE i \in 1..Len(dists) :
              \A j \in 1..Len(dists) :
                /\ ~SignedLess(dists[j][2], dists[i][2])
                /\ j < i => dists[j][2] # dists[i][2])

\* a target, two candidates of its encoding and a build
InitDistance ==
  /\ target_resolution \in {Some(r) : r \in Resolutions32}
  /\ candidate_resolutions \in Resolutions32 \X Resolutions32
  /\ overflow_checks \in BOOLEAN
  /\ distances = None
  /\ ranked_first = None
  /\ FulfillUnused
  /\ OrdUnused
  /\ DeviceUnused
  /\ StreamUnused
  /\ SetterUnused
  /\ ControlUnused
  /\ QueryUnused
  /\ UtilsUnused
  /\ ConvertUnused

\* the first stage of Closest: map, sort_by, dedup_by, first
RankCandidates ==
  /\ distances = None
  /\ LET dists == [k \in 1..Len(candidate_resolutions) |->
                     DistNoSqrtI32(candidate_resolutions[k], target_resolution[1],
                                   overflow_checks)]
     IN  /\ distances' = Some(dists)
         /\ ranked_first' = RankedFirst(dists)
  /\ UNCHANGED <<target_resolution, candidate_resolutions, overflow_checks>>
  /\ UNCHANGED exceptDistance

NextDistance == RankCandidates

SpecDistance == InitDistance /\ [][NextDistance]_vars

(***************************************************************************)
(* Vocabulary of the properties, stated without the operators above        *)
(***************************************************************************)

\* the entries of a list, as a set
Entries(all) == {all[i] : i \in DOMAIN all}

\* the order on resolutions: width first, then height
ResLess(a, b) ==
  \/ a.width_x < b.width_x
  \/ (a.width_x = b.width_x /\ a.height_y < b.height_y)

\* fulfill has returned for a request of the given variant
Done(variant) == pc = "fulfilled" /\ requested_format[1] = variant

(***************************************************************************)
(* AbsoluteHighestResolution and AbsoluteHighestFrameRate                  *)
(***************************************************************************)

\* C1: on a non-empty list AbsoluteHighestResolution returns an entry of the
\* list whose resolution is the greatest of the list (width first, then
\* height) and whose frame rate is the greatest among the entries that have
\* that resolution.
C1_AbsoluteHighestResolution ==
  (Done("AbsoluteHighestResolution") /\ all_formats # <<>>) =>
    /\ result # None
    /\ result[1] \in Entries(all_formats)
    /\ \A e \in Entries(all_formats) :
         ~ResLess(result[1].resolution, e.resolution)
    /\ \A e \in Entries(all_formats) :
         e.resolution = result[1].resolution
           => e.frame_rate <= result[1].frame_rate

\* C1 happens: an unsorted list holds the greatest resolution twice, the
\* higher frame rate first, and that entry's frame rate is returned.
C1_Witness ==
  /\ Done("AbsoluteHighestResolution")
  /\ result # None
  /\ \E i, j \in 1..Len(all_formats) :
       /\ i < j
       /\ all_formats[i].resolution = result[1].resolution
       /\ all_formats[j].resolution = result[1].resolution
       /\ all_formats[i].frame_rate > all_formats[j].frame_rate
       /\ result[1].frame_rate = all_formats[i].frame_rate

\* C2: on a non-empty list AbsoluteHighestFrameRate returns an entry of the
\* list whose frame rate is the greatest of the list and whose resolution is
\* the greatest (width first, then height) among the entries that have that
\* frame rate.
C2_AbsoluteHighestFrameRate ==
  (Done("AbsoluteHighestFrameRate") /\ all_formats # <<>>) =>
    /\ result # None
    /\ result[1] \in Entries(all_formats)
    /\ \A e \in Entries(all_formats) : e.frame_rate <= result[1].frame_rate
    /\ \A e \in Entries(all_formats) :
         e.frame_rate = result[1].frame_rate
           => ~ResLess(result[1].resolution, e.resolution)

\* C2 happens: two entries share the greatest frame rate, the one listed
\* first is wider but lower than the other, and it is the one returned.
C2_Witness ==
  /\ Done("AbsoluteHighestFrameRate")
  /\ result # None
  /\ \E i, j \in 1..Len(all_formats) :
       /\ i < j
       /\ all_formats[i].frame_rate = all_formats[j].frame_rate
       /\ all_formats[i].resolution.width_x > all_formats[j].resolution.width_x
       /\ all_formats[i].resolution.height_y < all_formats[j].resolution.height_y
       /\ result[1].resolution = all_formats[i].resolution

(***************************************************************************)
(* HighestResolution(res) and HighestFrameRate(fps)                        *)
(***************************************************************************)

SquaredDistance(r, t) ==
    ((r.width_x - t.width_x) * (r.width_x - t.width_x))
  + ((r.height_y - t.height_y) * (r.height_y - t.height_y))

\* the positions of the entries that have the encoding of the target
Candidates(c, all) == {i \in 1..Len(all) : all[i].format = c.format}

\* the first position, in list order, of a candidate at minimum distance
NearestCandidate(c, all) ==
  CHOOSE i \in Candidates(c, all) :
    \A j \in Candidates(c, all) :
      LET di == SquaredDistance(all[i].resolution, c.resolution)
          dj == SquaredDistance(all[j].resolution, c.resolution)
      IN  di < dj \/ (di = dj /\ i <= j)

\* the positions of the entries with the encoding of the target and the
\* resolution r
AtResolution(c, r, all) ==
  {i \in Candidates(c, all) : all[i].resolution = r}

\* the distance of the frame rate of entry i from the target's
RateDifference(c, all, i) ==
  IF all[i].frame_rate >= c.frame_rate
  THEN all[i].frame_rate - c.frame_rate
  ELSE c.frame_rate - all[i].frame_rate

NearestRateCandidate(c, all) ==
  CHOOSE i \in Candidates(c, all) :
    \A k \in Candidates(c, all) :
      \/ RateDifference(c, all, i) < RateDifference(c, all, k)
      \/ (RateDifference(c, all, i) = RateDifference(c, all, k) /\ i <= k)

C8_ClosestNoCrossEncoding ==
  (Done("Closest") /\ Candidates(requested_format[2], all_formats) = {}) =>
    result = None

\* C8 happens: the list holds the target's resolution and frame rate, but
\* only under another encoding, and none is returned.
C8_Witness ==
  /\ Done("Closest")
  /\ Candidates(requested_format[2], all_formats) = {}
  /\ \E e \in Entries(all_formats) :
       /\ e.resolution = requested_format[2].resolution
       /\ e.frame_rate = requested_format[2].frame_rate
  /\ result = None

(***************************************************************************)
(* None and the empty list                                                 *)
(***************************************************************************)

\* C9: on a non-empty list the request None returns the first entry of the
\* list.
C9_NoneReturnsFirst ==
  (Done("None") /\ all_formats # <<>>) => result = Some(all_formats[1])

\* C9 happens: the first entry is neither the greatest in resolution nor in
\* frame rate, and it is returned.
C9_Witness ==
  /\ Done("None")
  /\ Len(all_formats) > 1
  /\ ResLess(all_formats[1].resolution, all_formats[2].resolution)
  /\ all_formats[1].frame_rate < all_formats[2].frame_rate
  /\ result = Some(all_formats[1])

\* C10: on an empty list fulfill returns none, whatever the request.
C10_EmptyListGivesNone ==
  (pc = "fulfilled" /\ all_formats = <<>>) => result = None

\* C10 happens: fulfill has returned none for the request None on an empty
\* list.
C10_Witness ==
  /\ Done("None")
  /\ all_formats = <<>>
  /\ result = None

(***************************************************************************)
(* C11: the ordering on Resolution is a total order, width first and       *)
(* height second, both ascending: a < b exactly when a.width < b.width, or *)
(* the widths are equal and a.height < b.height.  CameraFormat is ordered  *)
(* lexicographically by (resolution, encoding, frame_rate).                *)
(***************************************************************************)

\* the encodings in the order of their bytes: 'm' (109) is before 'y' (121)
EncodingLess(a, b) == a = "mjpg" /\ b = "yuyv"

\* a is before b by (resolution, encoding, frame_rate)
FormatLess(a, b) ==
  \/ ResLess(a.resolution, b.resolution)
  \/ /\ a.resolution = b.resolution
     /\ EncodingLess(a.format, b.format)
  \/ /\ a.resolution = b.resolution
     /\ a.format = b.format
     /\ a.frame_rate < b.frame_rate

NoNativeLockHeld == \A h \in Handles : native_lock[h] = 0

\* a native format has the resolution, the encoding and the frame rate of d
FullMatch(format, d) ==
  /\ format.dimensions = d.resolution
  /\ format.media_subtype = d.format
  /\ \E j \in DOMAIN format.ranges : format.ranges[j] = 100 * d.frame_rate

(***************************************************************************)
(* C13: if a step of the transition Closed -> Configured fails, set_all    *)
(* among them, the session is left Closed: it holds no device resource,    *)
(* and in particular not the configuration lock taken while the format was *)
(* applied.  Stated of set_all: a call that starts with no native lock     *)
(* held and returns an error ends with no native lock held.                *)
(***************************************************************************)
C13_FailedSetAllHoldsNoLock ==
  [][(/\ NoNativeLockHeld
      /\ call_method' = "set_all"
      /\ call_result' # Ok)
       => NoNativeLockHeld']_vars

(***************************************************************************)
(* C15: when the device is opened and locked through one handle, a second  *)
(* attempt to open and lock the same device id fails with the error        *)
(* InitializeError "Already in use": not with another error, and not by    *)
(* succeeding.                                                             *)
(***************************************************************************)
C15_SecondLockAlreadyInUse ==
  [][(/\ call_method' = "lock"
      /\ \E g \in Handles : Some(g) # call_handle' /\ native_lock[g] > 0)
       => call_result' = AlreadyInUse]_vars

(***************************************************************************)
(* C16: set_all returns Ok only if the device reports a native format that *)
(* has the resolution, the encoding and the frame rate asked for, all      *)
(* three together; otherwise it returns an error and activates nothing.    *)
(***************************************************************************)
C16_OkOnlyOnFullMatch ==
  [][call_method' = "set_all" =>
       IF \E i \in DOMAIN native_formats : FullMatch(native_formats[i], call_descriptor'[1])
         THEN TRUE
         ELSE /\ call_result' # Ok
              /\ UNCHANGED <<active_format, active_min_frame_duration,
                             active_max_frame_duration>>]_vars

(***************************************************************************)
(* C12: the frames f1..fN handed to the delivery channel in that order are *)
(* returned by the successive calls of poll_frame as f1..fN in that order: *)
(* no frame is reordered, duplicated or dropped on the way.  At every      *)
(* moment the frames sent are the frames already polled, followed by the   *)
(* frames waiting in the queue, the frame the worker holds and the frames  *)
(* still in the channel of the delegate.                                   *)
(***************************************************************************)
C12_PollFrameInOrder ==
  handed = polled \o poll_queue \o worker_frame \o delegate_channel

\* three frames were sent and poll_frame has returned all three
C12_Witness ==
  /\ Len(handed) >= 3
  /\ polled = handed

(***************************************************************************)
(* C14: stop_stream on a streaming threaded camera signals the worker,     *)
(* lets the read in flight complete and joins the worker: once stop_stream *)
(* has returned the worker has terminated, it holds no frame left to hand  *)
(* to the callback or the queue, and the device lock is released.          *)
(***************************************************************************)
C14_StoppedMeansTerminatedAndUnlocked ==
  stream_pc \in {"stopped", "dropped"} =>
    /\ worker_pc = "terminated"
    /\ worker_frame = None
    /\ NoNativeLockHeld

(***************************************************************************)
(* Vocabulary of the properties of verify_setter                           *)
(***************************************************************************)

\* the setter variant that carries the value type of a description
SetterVariantOf(d) ==
  CASE d[1] \in {"Integer", "IntegerRange"} -> "Integer"
    [] d[1] \in {"Float", "FloatRange"} -> "Float"
    [] d[1] = "KeyValuePair" -> "KeyValue"
    [] d[1] = "Enum" -> "EnumValue"
    [] OTHER -> d[1]

\* the setter has the value type of the description and, for a range
\* description, a value within its bounds
TypedAndInRange(d, s) ==
  /\ s[1] = SetterVariantOf(d)
  /\ d[1] \in {"IntegerRange", "FloatRange"} => (d[2].min <= s[2] /\ s[2] <= d[2].max)

\* a description with a step, and the step is zero
ZeroStep(d) ==
  /\ d[1] \in {"Integer", "IntegerRange", "Float", "FloatRange"}
  /\ d[2].step = 0

(***************************************************************************)
(* C18: verify_setter accepts a setter only if its variant matches the     *)
(* value type of the description and, for a range description, its value   *)
(* lies within the bounds; for IntegerRange{min, max, ..} it returns true  *)
(* only for an Integer setter i with min <= i <= max, and false for every  *)
(* other variant and every i out of range.                                 *)
(***************************************************************************)
C18_AcceptedOnlyIfTypedAndInRange ==
  verified = Some(TRUE) => TypedAndInRange(description, setter)

\* C18 as the code has it: the same, except that a description whose step
\* is zero accepts every setter
C18_AcceptedOnlyIfTypedAndInRangeOrZeroStep ==
  verified = Some(TRUE) =>
    ZeroStep(description) \/ TypedAndInRange(description, setter)

\* an IntegerRange with a step other than zero has accepted an Integer
\* within its bounds
C18_Witness ==
  /\ description[1] = "IntegerRange"
  /\ description[2].step # 0
  /\ setter[1] = "Integer"
  /\ description[2].min <= setter[2] /\ setter[2] <= description[2].max
  /\ verified = Some(TRUE)

(***************************************************************************)
(* C19: when the step of an Integer, IntegerRange, Float or FloatRange     *)
(* description is zero, verify_setter returns true for every setter.       *)
(***************************************************************************)
C19_ZeroStepAcceptsEverySetter ==
  (ZeroStep(description) /\ verified # None) => verified = Some(TRUE)

\* a FloatRange of step zero has accepted a Boolean
C19_Witness ==
  /\ description[1] = "FloatRange"
  /\ description[2].step = 0
  /\ setter[1] = "Boolean"
  /\ verified = Some(TRUE)

(***************************************************************************)
(* C17: for every control whose flag list contains ReadOnly or Disabled,   *)
(* set_control returns an error for every value and sends no setter to the *)
(* native device: the state of the device is the same before and after the *)
(* call.                                                                   *)
(***************************************************************************)
C17_ReadOnlyOrDisabledRejected ==
  [][\A k \in DOMAIN controls :
       (/\ control_id' = Some(controls[k].control)
        /\ controls[k].flag \cap {"ReadOnly", "Disabled"} # {})
         => /\ control_result' # Some(Ok)
            /\ native_messages' = native_messages]_vars

\* on ios a control flagged Disabled was handed a value of the type of its
\* arm that its description accepts: the call returned the error Disabled
\* and the device received nothing
C17_Witness ==
  /\ target_os = "ios"
  /\ controls # <<>>
  /\ control_id = Some(controls[1].control)
  /\ controls[1].control = "Zoom"
  /\ controls[1].flag = {"Disabled"}
  /\ as_float(control_value[1]) # None
  /\ verify_setter(controls[1].description, control_value[1])
  /\ control_result = Some(SetPropertyError("Zoom", "Disabled"))
  /\ native_messages = <<>>


(***************************************************************************)
(* Vocabulary of the properties of query                                   *)
(***************************************************************************)

\* the backend of the platform, written out
NativeBackendOf ==
  [linux |-> "Video4Linux", windows |-> "MediaFoundation",
   macos |-> "AVFoundation", ios |-> "AVFoundation"]

\* the feature that compiles a backend in
FeatureOf ==
  [Video4Linux |-> "input-v4l", MediaFoundation |-> "input-msmf",
   AVFoundation |-> "input-avfoundation"]

\* the platform has a native backend and the build leaves it out
NativeBackendNotCompiledIn ==
  /\ consts_OS \in DOMAIN NativeBackendOf
  /\ FeatureOf[NativeBackendOf[consts_OS]] \notin features

(***************************************************************************)
(* C20: query(Auto) on a platform whose native backend is not compiled in  *)
(* returns an unsupported-operation error tagged with the native backend   *)
(* that was attempted for that platform (Video4Linux on linux), the error  *)
(* that query of that backend returns itself.                              *)
(***************************************************************************)
C20_AutoErrorTaggedWithNativeBackend ==
  (api = Some("Auto") /\ NativeBackendNotCompiledIn)
    => /\ query_result =
            Some(<<"UnsupportedOperationError", NativeBackendOf[consts_OS]>>)
       /\ query_result =
            Some(query(consts_OS, features, native_query,
                       NativeBackendOf[consts_OS]))


\* what query returned is an error
QueryFailed == query_result # None /\ query_result[1][1] # "Ok"

(***************************************************************************)
(* C21: query(Auto) dispatches to exactly one native backend, determined   *)
(* by the operating system, and it is the backend native_api_backend()     *)
(* reports for that system (linux: Video4Linux, macos and ios:             *)
(* AVFoundation, windows: MediaFoundation); where native_api_backend() is  *)
(* None, query(Auto) returns an error and queries no backend.              *)
(***************************************************************************)
C21_AutoDispatchesToNativeBackend ==
  api = Some("Auto")
    => IF consts_OS \in DOMAIN NativeBackendOf
         THEN /\ dispatched = <<NativeBackendOf[consts_OS]>>
              /\ native_api_backend(consts_OS) = Some(NativeBackendOf[consts_OS])
         ELSE /\ native_api_backend(consts_OS) = None
              /\ QueryFailed
              /\ dispatched = <<>>

(***************************************************************************)
(* C22: every value in the list valid_values() returns is valid to be set: *)
(* set_value with it on the same control returns Ok.                       *)
(***************************************************************************)
C22_ValidValuesAreSettable ==
  (/\ valid_values_list # None
   /\ set_value_arg # None
   /\ \E k \in DOMAIN valid_values_list[1] :
        valid_values_list[1][k] = set_value_arg[1])
    => set_value_result = Some(<<"Ok">>)

(***************************************************************************)
(* C23: for an RGB description with maximum (mr, mg, mb), verify_setter    *)
(* accepts an RGB setter (r, g, b) only when r <= mr, g <= mg and b <= mb, *)
(* and rejects a setter with any component above its maximum.              *)
(***************************************************************************)
C23_RGBAcceptedOnlyWithinMaximum ==
  (verified # None /\ description[1] = "RGB" /\ setter[1] = "RGB")
    => /\ verified = Some(TRUE)
            => /\ setter[2] <= description[2].max[1]
               /\ setter[3] <= description[2].max[2]
               /\ setter[4] <= description[2].max[3]
       /\ (\/ setter[2] > description[2].max[1]
           \/ setter[3] > description[2].max[2]
           \/ setter[4] > description[2].max[3])
            => verified = Some(FALSE)

(***************************************************************************)
(* C24: convert_to_rgb checks that the buffer size matches the expected    *)
(* size of width * height * 2 bytes: a buffer of exactly that length       *)
(* passes the check and is converted, and a buffer of any other length     *)
(* fails the assertion with the panic that the buffer size does not match  *)
(* the expected size.  Stated of the calls that reach the check: the       *)
(* format is one of the two converted and the scaler was created.          *)
(***************************************************************************)
C24_BufferSizeChecked ==
  (/\ convert_result # None
   /\ frame_buffer[1].source_frame_format \in {"YUV420", "UYVY_APPLE"}
   /\ scaler = "Ok")
    => IF frame_buffer[1].buffer_len = frame_buffer[1].width * frame_buffer[1].height * 2
         THEN convert_result = Some(<<"converted">>)
         ELSE convert_result =
                Some(<<"panic", "Buffer size does not match expected size">>)

(***************************************************************************)
(* C25: the locked flag of a wrapper is true exactly while the wrapper     *)
(* holds the native configuration lock, so every successful lock() is      *)
(* matched by a native unlockForConfiguration on the next unlock(): after  *)
(* set_all returns Ok the native configuration lock is not held.           *)
(***************************************************************************)
C25_LockedFlagTracksNativeLock ==
  call_method \in {"lock", "unlock", "set_all"}
    => /\ \A h \in Handles : locked[h] <=> native_lock[h] > 0
       /\ (call_method = "set_all" /\ call_result = <<"Ok">>)
            => native_lock[call_handle[1]] = 0

(***************************************************************************)
(* C26: when set_all succeeds on a device that reports several native      *)
(* formats with the requested dimensions, the native format it activates   *)
(* is one that itself supports the requested frame rate: the activated     *)
(* format and the frame durations applied come from the same native format *)
(* entry.                                                                  *)
(***************************************************************************)
C26_ActiveFormatHasAppliedDurations ==
  (call_method = "set_all" /\ call_result = <<"Ok">>)
    => /\ \E j \in DOMAIN native_formats[active_format[1]].ranges :
            native_formats[active_format[1]].ranges[j]
              = 100 * call_descriptor[1].frame_rate
       /\ active_min_frame_duration[1].format = active_format[1]
       /\ active_max_frame_duration[1].format = active_format[1]

(***************************************************************************)
(* C27: the current value of a description is always a valid setter for    *)
(* it: for every Integer or IntegerRange description with a step other     *)
(* than zero (and min <= value <= max), verify_setter of value() is true;  *)
(* and an Integer description accepts an Integer setter i exactly when i   *)
(* differs from the default or from the current value by a multiple of the *)
(* step.                                                                   *)
(***************************************************************************)
C27_OwnValueIsValidSetter ==
  (/\ verified # None
   /\ description[1] \in {"Integer", "IntegerRange"}
   /\ description[2].step # 0)
    => /\ (/\ setter = DescriptionValue(description)
           /\ description[1] = "IntegerRange"
                => /\ description[2].min <= description[2].value
                   /\ description[2].value <= description[2].max)
            => verified = Some(TRUE)
       /\ (description[1] = "Integer" /\ setter[1] = "Integer")
            => (verified = Some(TRUE)
                  <=> \E k \in -4 .. 4 :
                        \/ setter[2] - description[2].default = k * description[2].step
                        \/ setter[2] - description[2].value = k * description[2].step)

(***************************************************************************)
(* C28: Closest(target) returns a format whenever at least one entry of    *)
(* the list has the target's encoding, also when no entry has exactly the  *)
(* target's resolution: none is returned only if no entry has the          *)
(* encoding.                                                               *)
(***************************************************************************)
C28_ClosestReturnsWheneverEncodingListed ==
  Done("Closest") =>
    (result = None <=> Candidates(requested_format[2], all_formats) = {})

(***************************************************************************)
(* Vocabulary of the properties of the distance: exact arithmetic on       *)
(* natural numbers of nine bytes, lowest first                             *)
(***************************************************************************)

\* a natural number of fewer bytes, as nine bytes
Nat9(a) == [i \in 1..9 |-> IF i <= Len(a) THEN a[i] ELSE 0]

\* |a - b| of two u32
AbsDiff(a, b) == IF UnsignedLess(a, b) THEN WrappingSub(b, a) ELSE WrappingSub(a, b)

\* (res.x - c.x)^2 + (res.y - c.y)^2
SquaredEuclidean(res, c) ==
  LET dx == AbsDiff(res.width_x, c.width_x)
      dy == AbsDiff(res.height_y, c.height_y)
  IN  AddBytes(Nat9(WideningMul(dx, dx)), Nat9(WideningMul(dy, dy)), 0)

(***************************************************************************)
(* C29: for all u32 widths and heights of the target and of the            *)
(* candidates, the distance Closest computes (casts to i32, differences,   *)
(* squares and their sum in i32) equals the mathematical squared Euclidean *)
(* distance, with no wrap-around or overflow, so the candidate ranked      *)
(* first is really the nearest one.                                        *)
(***************************************************************************)
C29_DistanceIsSquaredEuclidean ==
  distances # None =>
    /\ \A k \in 1..Len(candidate_resolutions) :
         /\ distances[1][k][1] = "i32"
         /\ ~IsNegative(distances[1][k][2])
         /\ Nat9(distances[1][k][2])
              = SquaredEuclidean(candidate_resolutions[k], target_resolution[1])
    /\ ranked_first # None
    /\ \A k \in 1..Len(candidate_resolutions) :
         ~UnsignedLess(SquaredEuclidean(candidate_resolutions[k], target_resolution[1]),
                       SquaredEuclidean(candidate_resolutions[ranked_first[1]],
                                        target_resolution[1]))

(***************************************************************************)
(* C30: every invocation of the capture delegate callback leaves the       *)
(* strong reference count of the shared frame Sender unchanged, on the     *)
(* successful-send path and on the failed-send path (receiver dropped)     *)
(* alike, so after any sequence of callbacks the pointer stored in the     *)
(* delegate still refers to a live Sender.                                 *)
(***************************************************************************)
C30_CallbackKeepsSenderCount ==
  [][captured' = captured + 1
       => /\ sender_strong' = sender_strong
          /\ sender_strong' >= 1]_vars

====
